---- MODULE Spec2Model ----
(***************************************************************************)
(* Model of the perfume crate's offset ledger (src/identity/storage.rs):   *)
(* RemoteStore::digest_offset reading and writing whole blobs through a    *)
(* ConnectionBridge, with the ledger kept as ASCII bytes.                  *)
(***************************************************************************)
EXTENDS Integers, Sequences, FiniteSets, TLC

(* ---------------------------------------------------------------------- *)
(* Program constants                                                       *)
(* ---------------------------------------------------------------------- *)
\* STORAGE_DIGEST_LENGTH: HexString::<61> is the digest of a Storage record
STORAGE_DIGEST_LENGTH == 61
\* the minimum field width of `{next_offset:>5}`
OFFSET_WIDTH == 5
\* STORAGE_KEY_LENGTH: HexString::<3> is the key of a Storage record
STORAGE_KEY_LENGTH == 3
\* ASCII codes of the bytes the ledger is made of
SP == 32
NL == 10
CR == 13
ZERO == 48

(* ---------------------------------------------------------------------- *)
(* Bounds of the model                                                     *)
(* ---------------------------------------------------------------------- *)
\* number of digest_offset calls started in one behaviour
MaxCalls == 3
\* number of different digests the callers draw from
NumDigests == 3
\* number of bridge calls that fail in one behaviour
MaxFailures == 1
\* most decimal digits of a line count that a ledger line is written for
MaxDigits == 6
\* number of calls in a sequence run under both calling conventions
MaxTwinCalls == 3
\* number of identity calls in one behaviour
MaxIdentities == 3
\* longest byte string a HexString is made from
MaxHexLen == 3

Clients == {"c1", "c2"}
Domains == {"br", "bt"}
Keys == {"0a1", "f3e"}

\* a digest is 61 hex characters; all but the last are `fill`
Digest61(fill, last) ==
    [i \in 1..STORAGE_DIGEST_LENGTH |-> IF i = STORAGE_DIGEST_LENGTH THEN last ELSE fill]

\* the i-th digest callers use, in the order they are first used:
\* 55..5 , 11..1 , aa..a , 55..56 , 00..0   (so that D2 < D1 < D4 < D3)
DigestN(i) ==
    CASE i = 1 -> Digest61(53, 53)
      [] i = 2 -> Digest61(49, 49)
      [] i = 3 -> Digest61(97, 97)
      [] i = 4 -> Digest61(53, 54)
      [] OTHER -> Digest61(48, 48 + (i % 10))

Digests == {DigestN(i) : i \in 1..NumDigests}

\* the (domain, key, digest) triples callers pass: every digest under the
\* first domain and key, the second digest also under the second domain,
\* and the first digest also under the second key
Requests ==
    {[domain |-> "br", key |-> "0a1", digest |-> g] : g \in Digests}
    \cup {[domain |-> "bt", key |-> "0a1", digest |-> DigestN(2)]}
    \cup {[domain |-> "br", key |-> "f3e", digest |-> DigestN(1)]}

(* ---------------------------------------------------------------------- *)
(* Text helpers, computed as the code computes them                        *)
(* ---------------------------------------------------------------------- *)
\* Ord::cmp on str: lexicographic comparison of the bytes; -1, 0 or 1
Min(S) == CHOOSE x \in S : \A y \in S : x <= y
Max(S) == CHOOSE x \in S : \A y \in S : x >= y

StrCmp(a, b) ==
    LET n == IF Len(a) < Len(b) THEN Len(a) ELSE Len(b)
    IN  IF \E i \in 1..n : a[i] # b[i]
        THEN LET first == CHOOSE i \in 1..n :
                              a[i] # b[i] /\ \A j \in 1..(i - 1) : a[j] = b[j]
             IN  IF a[first] < b[first] THEN -1 ELSE 1
        ELSE IF Len(a) < Len(b) THEN -1
        ELSE IF Len(a) > Len(b) THEN 1
        ELSE 0

\* Display of a usize: its decimal digits
RECURSIVE Decimal(_)
Decimal(n) ==
    IF n < 10 THEN <<ZERO + n>>
    ELSE Decimal(n \div 10) \o <<ZERO + (n % 10)>>

\* `{:>5}`: right-justify in at least OFFSET_WIDTH characters, never truncate
PadLeft(s, w) ==
    IF Len(s) >= w THEN s
    ELSE [i \in 1..(w - Len(s)) |-> SP] \o s

\* variant: the offset written without a field width, "{digest} {next_offset}"
FormatLine_NoPad(digest, next_offset) ==
    digest \o <<SP>> \o Decimal(next_offset)

\* format!("{digest} {next_offset:>5}")
FormatLine(digest, next_offset) ==
    digest \o <<SP>> \o PadLeft(Decimal(next_offset), OFFSET_WIDTH)

\* lines.join("\n") followed by push('\n')
RECURSIVE Join(_)
Join(lines) ==
    IF Len(lines) = 0 THEN <<>>
    ELSE IF Len(lines) = 1 THEN lines[1]
    ELSE lines[1] \o <<NL>> \o Join(Tail(lines))

Resource(lines) == Join(lines) \o <<NL>>

\* BufRead::lines: split at '\n', drop the '\n' and a '\r' before it; a last
\* piece without '\n' is a line when it is not empty
StripCR(s) ==
    IF Len(s) > 0 /\ s[Len(s)] = CR THEN SubSeq(s, 1, Len(s) - 1) ELSE s

RECURSIVE SplitFrom(_, _)
SplitFrom(bytes, start) ==
    IF start > Len(bytes) THEN <<>>
    ELSE LET ends == {i \in start..Len(bytes) : bytes[i] = NL}
         IN  IF ends = {} THEN <<SubSeq(bytes, start, Len(bytes))>>
             ELSE <<StripCR(SubSeq(bytes, start, Min(ends) - 1))>>
                  \o SplitFrom(bytes, Min(ends) + 1)

Lines(bytes) == SplitFrom(bytes, 1)

\* str::trim for the ASCII white space a ledger line can hold
IsSpace(b) == b \in {SP, NL, CR, 9}

Trim(s) ==
    LET solid == {i \in 1..Len(s) : ~IsSpace(s[i])}
    IN  IF solid = {} THEN <<>> ELSE SubSeq(s, Min(solid), Max(solid))

\* str::parse::<usize>() of a string of decimal digits
RECURSIVE ParseUsize(_)
ParseUsize(s) ==
    IF Len(s) = 0 THEN 0
    ELSE 10 * ParseUsize(SubSeq(s, 1, Len(s) - 1)) + (s[Len(s)] - ZERO)


\* variant: the new line is pushed at the end, whatever the index
InsertAt_Push(lines, index, line) ==
    Append(lines, line)

\* variant: the new line is stored over the line at the index
InsertAt_Overwrites(lines, index, line) ==
    IF index < Len(lines)
    THEN [i \in 1..Len(lines) |-> IF i = index + 1 THEN line ELSE lines[i]]
    ELSE Append(lines, line)

\* Vec::insert(index, element), index counted from 0
InsertAt(lines, index, line) ==
    SubSeq(lines, 1, index) \o <<line>> \o SubSeq(lines, index + 1, Len(lines))

\* "<digest>": the first digest.len() characters of every line
SearchLines(lines, digest) ==
    [i \in 1..Len(lines) |-> SubSeq(lines[i], 1, Len(digest))]

\* slice::binary_search, as the standard library runs it; indices from 0.
\* found = TRUE is Ok(at), found = FALSE is Err(at)
RECURSIVE BinarySearchLoop(_, _, _, _)
BinarySearchLoop(xs, target, base, size) ==
    IF size > 1
    THEN LET half == size \div 2
             mid == base + half
             newBase == IF StrCmp(xs[mid + 1], target) = 1 THEN base ELSE mid
         IN  BinarySearchLoop(xs, target, newBase, size - half)
    ELSE LET cmp == StrCmp(xs[base + 1], target)
         IN  IF cmp = 0 THEN [found |-> TRUE, at |-> base]
             ELSE [found |-> FALSE, at |-> base + (IF cmp = -1 THEN 1 ELSE 0)]

BinarySearch(xs, target) ==
    IF Len(xs) = 0 THEN [found |-> FALSE, at |-> 0]
    ELSE BinarySearchLoop(xs, target, 0, Len(xs))

\* variant: the offset is read from the OFFSET_WIDTH characters of the field
FoundOffset_FixedWidth(found_line, digest) ==
    ParseUsize(Trim(SubSeq(found_line, Len(digest) + 2,
                           Len(digest) + 1 + OFFSET_WIDTH)))

\* found_line[(digest.len() + 1)..].trim().parse().unwrap()
FoundOffset(found_line, digest) ==
    ParseUsize(Trim(SubSeq(found_line, Len(digest) + 2, Len(found_line))))

(* ---------------------------------------------------------------------- *)
(* State                                                                   *)
(* ---------------------------------------------------------------------- *)
\* Option<Bytes>
NoBytes == [some |-> FALSE, bytes |-> <<>>]
SomeBytes(b) == [some |-> TRUE, bytes |-> b]

\* Result<usize, Error> of the last call of a client; "none" while it runs
NoResult == [kind |-> "none", offset |-> 0]
OkResult(n) == [kind |-> "ok", offset |-> n]
ErrResult == [kind |-> "err", offset |-> 0]

NoArgs == [domain |-> "", key |-> "", digest |-> <<>>]

VARIABLES
    store,        \* the bridge's resources: blob of every key, or none
    pc,           \* where each client is in digest_offset: idle, get, put
    args,         \* (_domain, storage.key, storage.digest) of the client's call
    stored_bytes, \* what the client's get returned
    next_offset,  \* lines.len() computed on a miss
    resource,     \* the bytes the client puts on a miss
    result,       \* what the client's call returned
    io,           \* bridge calls the client's current call has issued
    calls,        \* number of calls started
    returned,     \* every (domain, key, digest, offset) a call has returned
    order,        \* per key, the digests in the order they first got an offset
    owed,         \* per client, the offset its failed call was about to return
    raced,        \* keys written while another call on the key was between get and put
    failures,     \* number of bridge calls that have failed
    line_io,      \* one ledger line being written and read back
    identities,   \* the Identity values a caller's identity calls have returned
    eq_io,        \* two Identity values compared with ==, and the outcome
    hex_io,       \* one HexString::<N>::from(bytes) conversion
    bridge_io,    \* a ConnectionBridge: its resources and its last put and get
    twin,         \* one call sequence run blocking and run asynchronous
    build_io      \* one run of codegen::ingredients

vars == <<store, pc, args, stored_bytes, next_offset, resource, result, io,
          calls, returned, order, owed, raced, failures, line_io,
          identities, eq_io, hex_io, bridge_io, twin, build_io>>

\* the state of the components a specification does not exercise
ledger == <<store, pc, args, stored_bytes, next_offset, resource, result, io,
            calls, returned, order, owed, raced, failures>>
apart == <<identities, eq_io, hex_io, bridge_io, twin, build_io>>

NoEq == [stage |-> "off"]
NoHex == [stage |-> "off"]
NoBridge == [stage |-> "off"]
NoTwin == [stage |-> "off"]
NoBuild == [stage |-> "off"]

ApartIdle ==
    /\ identities = <<>>
    /\ eq_io = NoEq
    /\ hex_io = NoHex
    /\ bridge_io = NoBridge
    /\ twin = NoTwin
    /\ build_io = NoBuild

NoOwed == [set |-> FALSE, args |-> NoArgs, offset |-> 0]

NoLine == [stage |-> "off", digest |-> <<>>, len |-> 0, line |-> <<>>,
           read_digest |-> <<>>, read_offset |-> 0]

\* the key the bridge is called with: storage.key alone, _domain is unused
BridgeKey(domain, key) == key

\* the lines of a fetched blob: None is the empty ledger
LinesOf(fetched) ==
    IF fetched.some THEN Lines(fetched.bytes) ELSE <<>>

\* variant: a hit returns found_at, the position of the line
Lookup_HitIndex(fetched, digest) ==
    LET lines == LinesOf(fetched)
        r == BinarySearch(SearchLines(lines, digest), digest)
    IN  IF r.found
        THEN [hit |-> TRUE, offset |-> r.at, resource |-> <<>>]
        ELSE [hit |-> FALSE, offset |-> Len(lines),
              resource |-> Resource(InsertAt(lines, r.at,
                                             FormatLine(digest, Len(lines))))]

\* variant: a miss takes insert_at, the position of the new line, as offset
Lookup_OffsetIsIndex(fetched, digest) ==
    LET lines == LinesOf(fetched)
        r == BinarySearch(SearchLines(lines, digest), digest)
    IN  IF r.found
        THEN [hit |-> TRUE, offset |-> FoundOffset(lines[r.at + 1], digest),
              resource |-> <<>>]
        ELSE [hit |-> FALSE, offset |-> r.at,
              resource |-> Resource(InsertAt(lines, r.at,
                                             FormatLine(digest, r.at)))]

\* variant: a miss counts the new line in, next_offset = lines.len() + 1
Lookup_CountsNewLine(fetched, digest) ==
    LET lines == LinesOf(fetched)
        r == BinarySearch(SearchLines(lines, digest), digest)
    IN  IF r.found
        THEN [hit |-> TRUE, offset |-> FoundOffset(lines[r.at + 1], digest),
              resource |-> <<>>]
        ELSE [hit |-> FALSE, offset |-> Len(lines) + 1,
              resource |-> Resource(InsertAt(lines, r.at,
                                             FormatLine(digest, Len(lines) + 1)))]

\* the outcome of the match on binary_search for a fetched blob
Lookup(fetched, digest) ==
    LET lines == LinesOf(fetched)
        r == BinarySearch(SearchLines(lines, digest), digest)
    IN  IF r.found
        THEN [hit |-> TRUE, offset |-> FoundOffset(lines[r.at + 1], digest),
              resource |-> <<>>]
        ELSE [hit |-> FALSE, offset |-> Len(lines),
              resource |-> Resource(InsertAt(lines, r.at,
                                             FormatLine(digest, Len(lines))))]

Init ==
    /\ store = [k \in Keys |-> NoBytes]
    /\ pc = [c \in Clients |-> "idle"]
    /\ args = [c \in Clients |-> NoArgs]
    /\ stored_bytes = [c \in Clients |-> NoBytes]
    /\ next_offset = [c \in Clients |-> 0]
    /\ resource = [c \in Clients |-> <<>>]
    /\ result = [c \in Clients |-> NoResult]
    /\ io = [c \in Clients |-> <<>>]
    /\ calls = 0
    /\ returned = {}
    /\ order = [k \in Keys |-> <<>>]
    /\ owed = [c \in Clients |-> NoOwed]
    /\ raced = {}
    /\ failures = 0
    /\ line_io = NoLine
    /\ ApartIdle

\* the ledger components before any call
LedgerIdle ==
    /\ store = [k \in Keys |-> NoBytes]
    /\ pc = [c \in Clients |-> "idle"]
    /\ args = [c \in Clients |-> NoArgs]
    /\ stored_bytes = [c \in Clients |-> NoBytes]
    /\ next_offset = [c \in Clients |-> 0]
    /\ resource = [c \in Clients |-> <<>>]
    /\ result = [c \in Clients |-> NoResult]
    /\ io = [c \in Clients |-> <<>>]
    /\ calls = 0
    /\ returned = {}
    /\ order = [k \in Keys |-> <<>>]
    /\ owed = [c \in Clients |-> NoOwed]
    /\ raced = {}
    /\ failures = 0

(* ---------------------------------------------------------------------- *)
(* Bookkeeping of what callers have been told                              *)
(* ---------------------------------------------------------------------- *)
InSeq(x, s) == \E i \in 1..Len(s) : s[i] = x

Told(a, n) ==
    [domain |-> a.domain, key |-> a.key, digest |-> a.digest, offset |-> n]

Record(c, n) ==
    /\ returned' = returned \cup {Told(args[c], n)}
    /\ order' = IF InSeq(args[c].digest, order[args[c].key]) THEN order
                ELSE [order EXCEPT ![args[c].key] = Append(@, args[c].digest)]

\* a write to `key` ends what was owed for that key, except to the writer
\* retrying the very call that failed
Settle(c) ==
    owed' = [d \in Clients |->
                IF /\ owed[d].set
                   /\ owed[d].args.key = args[c].key
                   /\ ~(d = c /\ owed[d].args = args[c])
                THEN NoOwed ELSE owed[d]]

\* the put of c lands while another call on the same key holds a fetched blob
Overlaps(c) ==
    \E d \in Clients \ {c} : pc[d] = "put" /\ args[d].key = args[c].key

(* ---------------------------------------------------------------------- *)
(* digest_offset, one action per bridge call                               *)
(* ---------------------------------------------------------------------- *)
\* a caller enters digest_offset(domain, storage); a call that is not the
\* retry of the caller's failed call ends what that call was owed
Call(c, domain, key, digest) ==
    /\ pc[c] = "idle"
    /\ calls < MaxCalls
    /\ calls' = calls + 1
    /\ args' = [args EXCEPT ![c] = [domain |-> domain, key |-> key, digest |-> digest]]
    /\ pc' = [pc EXCEPT ![c] = "get"]
    /\ stored_bytes' = [stored_bytes EXCEPT ![c] = NoBytes]
    /\ next_offset' = [next_offset EXCEPT ![c] = 0]
    /\ resource' = [resource EXCEPT ![c] = <<>>]
    /\ result' = [result EXCEPT ![c] = NoResult]
    /\ io' = [io EXCEPT ![c] = <<>>]
    /\ owed' = [owed EXCEPT ![c] =
                  IF @.set /\ @.args.domain = domain /\ @.args.key = key
                           /\ @.args.digest = digest
                  THEN @ ELSE NoOwed]
    /\ UNCHANGED <<store, returned, order, raced, failures, line_io, apart>>

\* variant: a hit too writes the blob back before it returns
Get_HitRewrites(c) ==
    /\ pc[c] = "get"
    /\ LET k == BridgeKey(args[c].domain, args[c].key)
           fetched == store[k]
           r == Lookup(fetched, args[c].digest)
       IN  /\ stored_bytes' = [stored_bytes EXCEPT ![c] = fetched]
           /\ io' = [io EXCEPT ![c] = Append(@, [op |-> "get", key |-> k])]
           /\ next_offset' = [next_offset EXCEPT ![c] = r.offset]
           /\ resource' = [resource EXCEPT ![c] =
                             IF r.hit THEN Resource(LinesOf(fetched)) ELSE r.resource]
           /\ pc' = [pc EXCEPT ![c] = "put"]
    /\ UNCHANGED <<store, args, calls, owed, raced, failures, line_io, result, returned, order, apart>>

\* bridge.get(key) succeeds; the blob is parsed and searched.
\* Hit: Ok(found_offset).  Miss: the new blob is built and the put is next.
Get(c) ==
    /\ pc[c] = "get"
    /\ LET k == BridgeKey(args[c].domain, args[c].key)
           fetched == store[k]
           r == Lookup(fetched, args[c].digest)
       IN  /\ stored_bytes' = [stored_bytes EXCEPT ![c] = fetched]
           /\ io' = [io EXCEPT ![c] = Append(@, [op |-> "get", key |-> k])]
           /\ IF r.hit
              THEN /\ result' = [result EXCEPT ![c] = OkResult(r.offset)]
                   /\ pc' = [pc EXCEPT ![c] = "idle"]
                   /\ Record(c, r.offset)
                   /\ UNCHANGED <<next_offset, resource>>
              ELSE /\ next_offset' = [next_offset EXCEPT ![c] = r.offset]
                   /\ resource' = [resource EXCEPT ![c] = r.resource]
                   /\ pc' = [pc EXCEPT ![c] = "put"]
                   /\ UNCHANGED <<result, returned, order>>
    /\ UNCHANGED <<store, args, calls, owed, raced, failures, line_io, apart>>

\* variant: a get that failed is tried once more before the error is returned
GetFail_Retries(c) ==
    /\ pc[c] = "get"
    /\ failures < MaxFailures
    /\ failures' = failures + 1
    /\ LET k == BridgeKey(args[c].domain, args[c].key)
       IN  /\ io' = [io EXCEPT ![c] = Append(Append(@, [op |-> "get", key |-> k]),
                                             [op |-> "get", key |-> k])]
           /\ owed' = [owed EXCEPT ![c] =
                         [set |-> TRUE, args |-> args[c],
                          offset |-> Lookup(store[k], args[c].digest).offset]]
    /\ result' = [result EXCEPT ![c] = ErrResult]
    /\ pc' = [pc EXCEPT ![c] = "idle"]
    /\ UNCHANGED <<store, args, stored_bytes, next_offset, resource, calls,
                   returned, order, raced, line_io, apart>>

\* bridge.get(key) fails: `?` returns the error
GetFail(c) ==
    /\ pc[c] = "get"
    /\ failures < MaxFailures
    /\ failures' = failures + 1
    /\ LET k == BridgeKey(args[c].domain, args[c].key)
       IN  /\ io' = [io EXCEPT ![c] = Append(@, [op |-> "get", key |-> k])]
           /\ owed' = [owed EXCEPT ![c] =
                         [set |-> TRUE, args |-> args[c],
                          offset |-> Lookup(store[k], args[c].digest).offset]]
    /\ result' = [result EXCEPT ![c] = ErrResult]
    /\ pc' = [pc EXCEPT ![c] = "idle"]
    /\ UNCHANGED <<store, args, stored_bytes, next_offset, resource, calls,
                   returned, order, raced, line_io, apart>>

\* variant: the put adds the line to the blob the store holds at that
\* moment, with the offset that blob gives
Put_Merging(c) ==
    /\ pc[c] = "put"
    /\ LET k == BridgeKey(args[c].domain, args[c].key)
           r == Lookup(store[k], args[c].digest)
       IN  /\ store' = [store EXCEPT ![k] =
                           IF r.hit THEN store[k] ELSE SomeBytes(r.resource)]
           /\ io' = [io EXCEPT ![c] = Append(@, [op |-> "put", key |-> k])]
           /\ raced' = IF Overlaps(c) THEN raced \cup {k} ELSE raced
           /\ result' = [result EXCEPT ![c] = OkResult(r.offset)]
           /\ Record(c, r.offset)
    /\ pc' = [pc EXCEPT ![c] = "idle"]
    /\ Settle(c)
    /\ UNCHANGED <<args, stored_bytes, next_offset, resource, calls, failures, line_io, apart>>

\* bridge.put(key, resource_bytes) succeeds: the blob is replaced, Ok(next_offset)
Put(c) ==
    /\ pc[c] = "put"
    /\ LET k == BridgeKey(args[c].domain, args[c].key)
       IN  /\ store' = [store EXCEPT ![k] = SomeBytes(resource[c])]
           /\ io' = [io EXCEPT ![c] = Append(@, [op |-> "put", key |-> k])]
           /\ raced' = IF Overlaps(c) THEN raced \cup {k} ELSE raced
    /\ result' = [result EXCEPT ![c] = OkResult(next_offset[c])]
    /\ pc' = [pc EXCEPT ![c] = "idle"]
    /\ Record(c, next_offset[c])
    /\ Settle(c)
    /\ UNCHANGED <<args, stored_bytes, next_offset, resource, calls, failures, line_io, apart>>

\* variant: the put that reports a failure has replaced the blob
PutFail_Writes(c) ==
    /\ pc[c] = "put"
    /\ failures < MaxFailures
    /\ failures' = failures + 1
    /\ LET k == BridgeKey(args[c].domain, args[c].key)
       IN  /\ io' = [io EXCEPT ![c] = Append(@, [op |-> "put", key |-> k])]
           /\ store' = [store EXCEPT ![k] = SomeBytes(resource[c])]
    /\ owed' = [owed EXCEPT ![c] =
                  [set |-> TRUE, args |-> args[c], offset |-> next_offset[c]]]
    /\ result' = [result EXCEPT ![c] = ErrResult]
    /\ pc' = [pc EXCEPT ![c] = "idle"]
    /\ UNCHANGED <<args, stored_bytes, next_offset, resource, calls,
                   returned, order, raced, line_io, apart>>

\* bridge.put(key, resource_bytes) fails: map_err returns the error
PutFail(c) ==
    /\ pc[c] = "put"
    /\ failures < MaxFailures
    /\ failures' = failures + 1
    /\ LET k == BridgeKey(args[c].domain, args[c].key)
       IN  io' = [io EXCEPT ![c] = Append(@, [op |-> "put", key |-> k])]
    /\ owed' = [owed EXCEPT ![c] =
                  [set |-> TRUE, args |-> args[c], offset |-> next_offset[c]]]
    /\ result' = [result EXCEPT ![c] = ErrResult]
    /\ pc' = [pc EXCEPT ![c] = "idle"]
    /\ UNCHANGED <<store, args, stored_bytes, next_offset, resource, calls,
                   returned, order, raced, line_io, apart>>

Next ==
    \/ \E c \in Clients, r \in Requests : Call(c, r.domain, r.key, r.digest)
    \/ \E c \in Clients : Get(c)
    \/ \E c \in Clients : GetFail(c)
    \/ \E c \in Clients : Put(c)
    \/ \E c \in Clients : PutFail(c)

Spec == Init /\ [][Next]_vars

(* ---------------------------------------------------------------------- *)
(* codegen: the sizes of a population and what they require                *)
(* ---------------------------------------------------------------------- *)
PopulationSizes == {"Bhutan", "Belgium", "Brazil"}

\* enum PopulationSize: the discriminant, `size as usize`
Capacity(size) ==
    CASE size = "Bhutan" -> 727145
      [] size = "Belgium" -> 11742796
      [] OTHER -> 203080756

RECURSIVE Pow16(_)
Pow16(k) == IF k = 0 THEN 1 ELSE 16 * Pow16(k - 1)

\* 16u32.pow(STORAGE_KEY_LENGTH as u32)
RequiredPrefixes == Pow16(STORAGE_KEY_LENGTH)

\* variant: the storage key is taken one character shorter
RequiredColorAnimals_ShortKey(size) ==
    Capacity(size) \div Pow16(STORAGE_KEY_LENGTH - 1)

\* size as u32 / required_prefixes
RequiredColorAnimals(size) ==
    Capacity(size) \div RequiredPrefixes

(* ---------------------------------------------------------------------- *)
(* One ledger line: written on a miss, read back on a hit                  *)
(* ---------------------------------------------------------------------- *)
RECURSIVE Pow10(_)
Pow10(k) == IF k = 0 THEN 1 ELSE 10 * Pow10(k - 1)

\* the values lines.len() takes: small ledgers, the ledgers at which the
\* decimal offset gains a digit, and the last offset of every population
LineCounts ==
    (0..3) \cup {Pow10(k) - 1 : k \in 1..(MaxDigits - 1)}
           \cup {Pow10(k) : k \in 1..(MaxDigits - 1)}
           \cup {RequiredColorAnimals(size) - 1 : size \in PopulationSizes}

LedgerUntouched ==
    UNCHANGED <<ledger, apart>>

LineInit ==
    /\ store = [k \in Keys |-> NoBytes]
    /\ pc = [c \in Clients |-> "idle"]
    /\ args = [c \in Clients |-> NoArgs]
    /\ stored_bytes = [c \in Clients |-> NoBytes]
    /\ next_offset = [c \in Clients |-> 0]
    /\ resource = [c \in Clients |-> <<>>]
    /\ result = [c \in Clients |-> NoResult]
    /\ io = [c \in Clients |-> <<>>]
    /\ calls = 0
    /\ returned = {}
    /\ order = [k \in Keys |-> <<>>]
    /\ owed = [c \in Clients |-> NoOwed]
    /\ raced = {}
    /\ failures = 0
    /\ ApartIdle
    /\ \E g \in Digests, n \in LineCounts :
          line_io = [NoLine EXCEPT !.stage = "miss", !.digest = g, !.len = n]

\* the miss arm for a ledger of line_io.len lines: the line that is inserted
WriteLine ==
    /\ line_io.stage = "miss"
    /\ line_io' = [line_io EXCEPT
                      !.stage = "written",
                      !.line = FormatLine(line_io.digest, line_io.len)]
    /\ LedgerUntouched

\* the hit arm on that line: the search key and the offset parsed from it
ReadLine ==
    /\ line_io.stage = "written"
    /\ line_io' = [line_io EXCEPT
                      !.stage = "read",
                      !.read_digest = SearchLines(<<line_io.line>>, line_io.digest)[1],
                      !.read_offset = FoundOffset(line_io.line, line_io.digest)]
    /\ LedgerUntouched

LineNext == WriteLine \/ ReadLine

LineSpec == LineInit /\ [][LineNext]_vars

(* ---------------------------------------------------------------------- *)
(* digest_offset and digest_offset_async as whole calls of one caller      *)
(* ---------------------------------------------------------------------- *)
\* the bridge method a call site reaches: `if _async { ..._async(..).await }`
BridgeOp(_async, name) ==
    IF _async THEN (IF name = "get" THEN "get_async" ELSE "put_async") ELSE name

\* MockBridge::get / get_async: the blob under the key, if any
MockGet(resources, key) == resources[key]

\* MockBridge::put / put_async: the entry of the key is replaced by the body
MockPut(resources, key, body) == [resources EXCEPT ![key] = SomeBytes(body)]

\* variant: the write of the asynchronous call goes through the blocking put
DigestOffset_AsyncPutsBlocking(_async, resources, domain, key, digest) ==
    LET k == BridgeKey(domain, key)
        r == Lookup(MockGet(resources, k), digest)
        got == [op |-> BridgeOp(_async, "get"), key |-> k]
    IN  IF r.hit
        THEN [result |-> OkResult(r.offset), resources |-> resources,
              io |-> <<got>>]
        ELSE [result |-> OkResult(r.offset),
              resources |-> MockPut(resources, k, r.resource),
              io |-> <<got, [op |-> "put", key |-> k]>>]

\* one call that runs to its end with no other caller and no bridge failure:
\* the result, the bridge's resources afterwards and the bridge calls made
DigestOffset(_async, resources, domain, key, digest) ==
    LET k == BridgeKey(domain, key)
        r == Lookup(MockGet(resources, k), digest)
        got == [op |-> BridgeOp(_async, "get"), key |-> k]
    IN  IF r.hit
        THEN [result |-> OkResult(r.offset), resources |-> resources,
              io |-> <<got>>]
        ELSE [result |-> OkResult(r.offset),
              resources |-> MockPut(resources, k, r.resource),
              io |-> <<got, [op |-> BridgeOp(_async, "put"), key |-> k]>>]

\* the stores a call sequence starts from: nothing stored, or one ledger
\* that holds a line already
InitialStores ==
    { [k \in Keys |-> NoBytes],
      [k \in Keys |-> IF k = "0a1"
                      THEN SomeBytes(Resource(<<FormatLine(DigestN(3), 0)>>))
                      ELSE NoBytes] }

NoRun == [resources |-> [k \in Keys |-> NoBytes], results |-> <<>>, io |-> <<>>]

TwinInit ==
    /\ LedgerIdle
    /\ line_io = NoLine
    /\ identities = <<>>
    /\ eq_io = NoEq
    /\ hex_io = NoHex
    /\ bridge_io = NoBridge
    /\ build_io = NoBuild
    /\ \E s \in InitialStores :
          twin = [stage |-> "on", requests |-> <<>>,
                  blocking |-> [NoRun EXCEPT !.resources = s],
                  async |-> [NoRun EXCEPT !.resources = s]]

\* a run after one more call
RunCall(_async, run, r) ==
    LET out == DigestOffset(_async, run.resources, r.domain, r.key, r.digest)
    IN  [resources |-> out.resources,
         results |-> Append(run.results, out.result),
         io |-> Append(run.io, out.io)]

\* the same call is made next in the blocking run and in the asynchronous run
TwinCall(r) ==
    /\ twin.stage = "on"
    /\ Len(twin.requests) < MaxTwinCalls
    /\ twin' = [twin EXCEPT
                   !.requests = Append(@, r),
                   !.blocking = RunCall(FALSE, @, r),
                   !.async = RunCall(TRUE, @, r)]
    /\ UNCHANGED <<ledger, line_io, identities, eq_io, hex_io, bridge_io, build_io>>

TwinNext == \E r \in Requests : TwinCall(r)

TwinSpec == TwinInit /\ [][TwinNext]_vars

(* ---------------------------------------------------------------------- *)
(* Population::identity over a RemoteStore, and Identity's ==              *)
(* ---------------------------------------------------------------------- *)
\* the populations of the tests and of the example
BRAZILIAN == [domain |-> "br", secret |-> "0123456789abcdef0123456789abcdef"]
BHUTANESE == [domain |-> "bt", secret |-> "3D5aPzC0jwT25eAWlEa4FcW8d9FNz00g"]
Populations == {BRAZILIAN, BHUTANESE}

Identifiers == {"f@r.br", "flying@wom.bt", "fast@serpent.bt"}

\* the generated ingredients, cut down to the keys of the model
PrefixTable == [k \in Keys |-> IF k = "0a1" THEN "unraking" ELSE "reifying"]
Colors == <<"teal", "rose">>
Animals == <<"muskrat", "gelding", "lab">>

\* the keyed hash of an identifier under a secret, split into key and
\* digest: a fixed function; two identifiers of a population share a key
KeyedHash(secret, identifier) ==
    IF secret = BRAZILIAN.secret
    THEN CASE identifier = "f@r.br" -> [key |-> "0a1", digest |-> DigestN(1)]
           [] identifier = "flying@wom.bt" -> [key |-> "0a1", digest |-> DigestN(2)]
           [] OTHER -> [key |-> "f3e", digest |-> DigestN(1)]
    ELSE CASE identifier = "f@r.br" -> [key |-> "0a1", digest |-> DigestN(3)]
           [] identifier = "flying@wom.bt" -> [key |-> "f3e", digest |-> DigestN(2)]
           [] OTHER -> [key |-> "0a1", digest |-> DigestN(4)]

\* the name made of the key's word and the offset's color and animal
FriendlyName(key, offset) ==
    PrefixTable[key] \o "-" \o Colors[(offset \div Len(Animals)) + 1]
                     \o "-" \o Animals[(offset % Len(Animals)) + 1]

\* Identity::default() of the tests
DefaultStorage == [key |-> "000", digest |-> Digest61(ZERO, ZERO)]
DefaultIdentity == [domain |-> "", friendly_name |-> "", storage |-> DefaultStorage]

\* variant: the comparison #[derive(PartialEq)] would give, all fields
IdentityEq_Derived(a, b) ==
    a.domain = b.domain /\ a.friendly_name = b.friendly_name /\ a.storage = b.storage

\* impl PartialEq for Identity
IdentityEq(a, b) ==
    a.domain = b.domain /\ a.friendly_name = b.friendly_name

IdentityInit ==
    /\ LedgerIdle
    /\ line_io = NoLine
    /\ ApartIdle

\* population.identity(identifier, &mut store), with no other caller and no
\* bridge failure
IdentityCall(population, identifier) ==
    /\ eq_io.stage = "off"
    /\ Len(identities) < MaxIdentities
    /\ LET rec == KeyedHash(population.secret, identifier)
           out == DigestOffset(FALSE, store, population.domain, rec.key, rec.digest)
       IN  /\ out.result.offset < Len(Colors) * Len(Animals)
           /\ store' = out.resources
           /\ identities' = Append(identities,
                  [domain |-> population.domain,
                   identifier |-> identifier,
                   friendly_name |-> FriendlyName(rec.key, out.result.offset),
                   storage |-> rec,
                   offset |-> out.result.offset,
                   io |-> out.io])
    /\ UNCHANGED <<pc, args, stored_bytes, next_offset, resource, result, io,
                   calls, returned, order, owed, raced, failures, line_io,
                   eq_io, hex_io, bridge_io, twin, build_io>>

\* the Identity value of a returned identity
AsIdentity(e) ==
    [domain |-> e.domain, friendly_name |-> e.friendly_name, storage |-> e.storage]

\* the Identity values at hand: those returned, those with the record
\* replaced by the default record, and the default Identity
IdentityValues ==
    {AsIdentity(identities[i]) : i \in 1..Len(identities)}
    \cup {[AsIdentity(identities[i]) EXCEPT !.storage = DefaultStorage] :
             i \in 1..Len(identities)}
    \cup {DefaultIdentity}

\* a == b on two Identity values
Compare(a, b) ==
    /\ eq_io.stage = "off"
    /\ identities # <<>>
    /\ eq_io' = [stage |-> "on", a |-> a, b |-> b, equal |-> IdentityEq(a, b)]
    /\ UNCHANGED <<ledger, line_io, identities, hex_io, bridge_io, twin, build_io>>

IdentityNext ==
    \/ \E p \in Populations, i \in Identifiers : IdentityCall(p, i)
    \/ \E a \in IdentityValues, b \in IdentityValues : Compare(a, b)

IdentitySpec == IdentityInit /\ [][IdentityNext]_vars

(* ---------------------------------------------------------------------- *)
(* HexString<N>: From<&[u8]> in both builds, and Default                   *)
(* ---------------------------------------------------------------------- *)
\* the bytes conversions are tried on: the ends of '0'-'9', 'A'-'F' and
\* 'a'-'f', the bytes next to them, and bytes that are not ASCII
HexBytes == {47, 48, 57, 58, 64, 65, 70, 71, 96, 97, 102, 103, 169, 195}

\* the sizes N of the tests
HexSizes == {1, 3}

\* every byte string of a length
RECURSIVE BytesOfLen(_)
BytesOfLen(n) ==
    IF n = 0 THEN {<<>>}
    ELSE {Append(s, b) : s \in BytesOfLen(n - 1), b \in HexBytes}

\* char::is_ascii_hexdigit
IsAsciiHexDigit(b) ==
    (48 <= b /\ b <= 57) \/ (65 <= b /\ b <= 70) \/ (97 <= b /\ b <= 102)

\* String::from_utf8 on bytes that are ASCII or the lead and continuation
\* byte of a two-byte character: the characters, or no string
RECURSIVE Utf8Chars(_)
Utf8Chars(bytes) ==
    IF Len(bytes) = 0 THEN [ok |-> TRUE, chars |-> <<>>]
    ELSE IF bytes[1] < 128
         THEN LET rest == Utf8Chars(Tail(bytes))
              IN  [ok |-> rest.ok, chars |-> <<bytes[1]>> \o rest.chars]
    ELSE IF /\ 194 <= bytes[1] /\ bytes[1] <= 223 /\ Len(bytes) >= 2
            /\ 128 <= bytes[2] /\ bytes[2] <= 191
         THEN LET rest == Utf8Chars(Tail(Tail(bytes)))
              IN  [ok |-> rest.ok,
                   chars |-> <<(bytes[1] - 192) * 64 + (bytes[2] - 128)>> \o rest.chars]
    ELSE [ok |-> FALSE, chars |-> <<>>]

\* str::make_ascii_lowercase, byte by byte
AsciiLower(b) == IF 65 <= b /\ b <= 90 THEN b + 32 ELSE b

\* to_lower of the nightly build: 'A'..'F' only
ToLower(c) == IF 65 <= c /\ c <= 70 THEN c + 32 ELSE c

Panic == [outcome |-> "panic", value |-> <<>>]
Value(v) == [outcome |-> "value", value |-> v]

\* From<&[u8]> without the nightly feature
FromStable(n, bytes) ==
    LET string == Utf8Chars(bytes)
    IN  IF ~string.ok THEN Panic
        ELSE IF \E i \in 1..Len(string.chars) : ~IsAsciiHexDigit(string.chars[i])
             THEN Panic
        ELSE IF Len(bytes) # n THEN Panic
        ELSE Value([i \in 1..Len(bytes) |-> AsciiLower(bytes[i])])

\* From<&[u8]> with the nightly feature: filter_map(Char::from_u8) keeps the
\* bytes that are ASCII
FromNightly(n, bytes) ==
    LET chars == SelectSeq(bytes, LAMBDA b : b < 128)
    IN  IF \E i \in 1..Len(chars) : ~IsAsciiHexDigit(chars[i]) THEN Panic
        ELSE IF Len(chars) # n THEN Panic
        ELSE Value([i \in 1..Len(chars) |-> ToLower(chars[i])])

\* HexString::<N>::default() in either build
HexDefault(n) == [i \in 1..n |-> ZERO]

HexInit ==
    /\ LedgerIdle
    /\ line_io = NoLine
    /\ identities = <<>>
    /\ eq_io = NoEq
    /\ bridge_io = NoBridge
    /\ twin = NoTwin
    /\ build_io = NoBuild
    /\ \E n \in HexSizes, nightly \in BOOLEAN, len \in 0..MaxHexLen :
          \E bytes \in BytesOfLen(len) :
              hex_io = [stage |-> "in", n |-> n, nightly |-> nightly,
                        bytes |-> bytes, outcome |-> "none", value |-> <<>>]

\* HexString::<N>::from(bytes)
FromBytes ==
    /\ hex_io.stage = "in"
    /\ LET r == IF hex_io.nightly THEN FromNightly(hex_io.n, hex_io.bytes)
                ELSE FromStable(hex_io.n, hex_io.bytes)
       IN  hex_io' = [hex_io EXCEPT !.stage = "from",
                                    !.outcome = r.outcome, !.value = r.value]
    /\ UNCHANGED <<ledger, line_io, identities, eq_io, bridge_io, twin, build_io>>

\* HexString::<N>::default()
DefaultHex ==
    /\ hex_io.stage = "in"
    /\ hex_io' = [hex_io EXCEPT !.stage = "default", !.outcome = "value",
                                !.value = HexDefault(hex_io.n)]
    /\ UNCHANGED <<ledger, line_io, identities, eq_io, bridge_io, twin, build_io>>

HexNext == FromBytes \/ DefaultHex

HexSpec == HexInit /\ [][HexNext]_vars

(* ---------------------------------------------------------------------- *)
(* The connectors: MockBridge, and ExampleBridge with its test server      *)
(* ---------------------------------------------------------------------- *)
\* the test server reads a request into a buffer of 512 bytes and a body
\* that comes after it into one of MAX_BODY_SIZE bytes
SERVER_BUF_SIZE == 512
MAX_BODY_SIZE == 4096

BridgeKinds == {"mock", "example"}

\* the blobs put: ledgers as digest_offset writes them, of one to three lines
LedgerBlobs ==
    { Resource(<<FormatLine(DigestN(1), 0)>>),
      Resource(<<FormatLine(DigestN(2), 1), FormatLine(DigestN(1), 0)>>),
      Resource(<<FormatLine(DigestN(2), 1), FormatLine(DigestN(1), 0),
                 FormatLine(DigestN(3), 2)>>) }

\* format!("{}{}/{}", self.url, self.domain, key): the path of the request
ExamplePath(key) == "/bt/" \o key

\* String::from_utf8_lossy: bytes that are not ASCII are replaced by U+FFFD
RECURSIVE Utf8Lossy(_)
Utf8Lossy(bytes) ==
    LET bad == {i \in 1..Len(bytes) : bytes[i] >= 128}
    IN  IF bad = {} THEN bytes
        ELSE SubSeq(bytes, 1, Min(bad) - 1) \o <<239, 191, 189>>
             \o Utf8Lossy(SubSeq(bytes, Min(bad) + 1, Len(bytes)))

\* parse_stream: the body the server takes from a request whose first read
\* brought `arrived` bytes of the body after the head; none for no body
ParseStream(body, arrived) ==
    IF Len(body) = 0 THEN NoBytes
    ELSE IF arrived > 0 THEN SomeBytes(SubSeq(body, 1, arrived))
    ELSE SomeBytes(body)

\* the bytes of a body the first read can bring: none (the body is read
\* next), a part, or all of it
Arrivals(body) ==
    {a \in {0, Len(body) \div 2, Len(body)} :
        a <= SERVER_BUF_SIZE /\ (a = 0 => Len(body) <= MAX_BODY_SIZE)}

\* test_server: `for line in response_str.lines() { write_all(line) }`
RECURSIVE Concat(_)
Concat(ls) == IF Len(ls) = 0 THEN <<>> ELSE ls[1] \o Concat(Tail(ls))

ServerResponse(stored) == Concat(Lines(stored))

\* put of a bridge: the resources afterwards
PutVia(kind, resources, key, body, arrived) ==
    IF kind = "mock" THEN MockPut(resources, key, body)
    ELSE [resources EXCEPT
             ![key] = SomeBytes(Utf8Lossy(ParseStream(body, arrived).bytes))]

\* get of a bridge: None for a key never put (404 Not Found)
GetVia(kind, resources, key) ==
    IF kind = "mock" THEN MockGet(resources, key)
    ELSE IF resources[key].some
         THEN SomeBytes(ServerResponse(resources[key].bytes))
         ELSE NoBytes

NoPut == [key |-> "", path |-> "", body |-> <<>>]

BridgeInit ==
    /\ LedgerIdle
    /\ line_io = NoLine
    /\ identities = <<>>
    /\ eq_io = NoEq
    /\ hex_io = NoHex
    /\ twin = NoTwin
    /\ build_io = NoBuild
    /\ \E kind \in BridgeKinds :
          bridge_io = [stage |-> "on", kind |-> kind,
                       resources |-> [k \in Keys |-> NoBytes],
                       last |-> "none", written |-> NoPut,
                       got_key |-> "", got |-> NoBytes]

\* bridge.put(key, body)
BridgePut(key, body) ==
    /\ bridge_io.stage = "on"
    /\ \E arrived \in Arrivals(body) :
          bridge_io' = [bridge_io EXCEPT
              !.resources = PutVia(bridge_io.kind, @, key, body, arrived),
              !.last = "put",
              !.written = [key |-> key,
                           path |-> IF bridge_io.kind = "mock" THEN key
                                    ELSE ExamplePath(key),
                           body |-> body],
              !.got_key = "", !.got = NoBytes]
    /\ UNCHANGED <<ledger, line_io, identities, eq_io, hex_io, twin, build_io>>

\* bridge.get(key)
BridgeGet(key) ==
    /\ bridge_io.stage = "on"
    /\ bridge_io.last # "get"
    /\ bridge_io' = [bridge_io EXCEPT
          !.last = "get", !.got_key = key,
          !.got = GetVia(bridge_io.kind, bridge_io.resources, key)]
    /\ UNCHANGED <<ledger, line_io, identities, eq_io, hex_io, twin, build_io>>

BridgeNext ==
    \/ \E k \in Keys, b \in LedgerBlobs : BridgePut(k, b)
    \/ \E k \in Keys : BridgeGet(k)

BridgeSpec == BridgeInit /\ [][BridgeNext]_vars

(* ---------------------------------------------------------------------- *)
(* codegen::ingredients                                                    *)
(* ---------------------------------------------------------------------- *)
\* the numbers of lines of the word files a build is tried on
PrefixCounts == {0, 4095, 4096, 4097}
ColorCounts == {0, 1, 3, 222, 65536}
AnimalCounts == {0, 58, 59, 223, 224, 955, 956, 65536, 65537}

\* count_lines: `count as u32`, of a count that is below 2^32
CountLines(n) == n

\* the i-th byte of a u32, the lowest being byte 0
Limb(n, i) ==
    CASE i = 0 -> n % 256
      [] i = 1 -> (n \div 256) % 256
      [] i = 2 -> (n \div 65536) % 256
      [] OTHER -> (n \div 16777216) % 256

\* a * b on u32, byte by byte: whether the product passes u32::MAX, and the
\* upper and lower 16 bits of the wrapped product
MulU32(a, b) ==
    LET col(k) == LET pairs == {i \in 0..3 : k - i \in 0..3}
                      term[i \in 0..3] == IF i \in pairs
                                           THEN Limb(a, i) * Limb(b, k - i) ELSE 0
                  IN  term[0] + term[1] + term[2] + term[3]
        t0 == col(0)
        t1 == col(1) + (t0 \div 256)
        t2 == col(2) + (t1 \div 256)
        t3 == col(3) + (t2 \div 256)
        t4 == col(4) + (t3 \div 256)
    IN  [overflow |-> t4 # 0 \/ col(5) # 0 \/ col(6) # 0,
         hi |-> (t3 % 256) * 256 + (t2 % 256),
         lo |-> (t1 % 256) * 256 + (t0 % 256)]

\* required > product, the product given by its halves
ExceedsProduct(required, product) ==
    \/ required \div 65536 > product.hi
    \/ required \div 65536 = product.hi /\ required % 65536 > product.lo

NoTable == [capacity |-> 0, prefixes |-> 0, colors |-> 0, animals |-> 0]

\* variant: the output file is created before the word counts are checked
Ingredients_CreatesFirst(size, prefixes, colors, animals, overflow_checks) ==
    LET prefix_count == CountLines(prefixes)
        color_count == CountLines(colors)
        animal_count == CountLines(animals)
        product == MulU32(color_count, animal_count)
    IN  IF prefix_count < RequiredPrefixes
        THEN [outcome |-> "codegen_err", output |-> "created", table |-> NoTable]
        ELSE IF product.overflow /\ overflow_checks
        THEN [outcome |-> "panic", output |-> "created", table |-> NoTable]
        ELSE IF ExceedsProduct(RequiredColorAnimals(size), product)
        THEN [outcome |-> "codegen_err", output |-> "created", table |-> NoTable]
        ELSE [outcome |-> "ok", output |-> "written",
              table |-> [capacity |-> Capacity(size), prefixes |-> RequiredPrefixes,
                         colors |-> colors, animals |-> animals]]

\* ingredients(static_name, size, prefixes, colors, animals, output) on word
\* files of the given numbers of lines: what it returns, what becomes of the
\* output file, and the sizes of the generated table.  color_count *
\* animal_count is a u32 product: it panics when overflow checks are on and
\* wraps when they are off
Ingredients(size, prefixes, colors, animals, overflow_checks) ==
    LET prefix_count == CountLines(prefixes)
        color_count == CountLines(colors)
        animal_count == CountLines(animals)
        product == MulU32(color_count, animal_count)
    IN  IF prefix_count < RequiredPrefixes
        THEN [outcome |-> "codegen_err", output |-> "absent", table |-> NoTable]
        ELSE IF product.overflow /\ overflow_checks
        THEN [outcome |-> "panic", output |-> "absent", table |-> NoTable]
        ELSE IF ExceedsProduct(RequiredColorAnimals(size), product)
        THEN [outcome |-> "codegen_err", output |-> "absent", table |-> NoTable]
        ELSE [outcome |-> "ok", output |-> "written",
              table |-> [capacity |-> Capacity(size), prefixes |-> RequiredPrefixes,
                         colors |-> colors, animals |-> animals]]

BuildInit ==
    /\ LedgerIdle
    /\ line_io = NoLine
    /\ identities = <<>>
    /\ eq_io = NoEq
    /\ hex_io = NoHex
    /\ bridge_io = NoBridge
    /\ twin = NoTwin
    /\ \E size \in PopulationSizes, p \in PrefixCounts, c \in ColorCounts,
          a \in AnimalCounts, checks \in BOOLEAN :
          build_io = [stage |-> "in", size |-> size, prefixes |-> p,
                      colors |-> c, animals |-> a, overflow_checks |-> checks,
                      outcome |-> "none", output |-> "absent", table |-> NoTable]

\* one run of ingredients
Build ==
    /\ build_io.stage = "in"
    /\ LET r == Ingredients(build_io.size, build_io.prefixes, build_io.colors,
                            build_io.animals, build_io.overflow_checks)
       IN  build_io' = [build_io EXCEPT !.stage = "done", !.outcome = r.outcome,
                                        !.output = r.output, !.table = r.table]
    /\ UNCHANGED <<ledger, line_io, identities, eq_io, hex_io, bridge_io, twin>>

BuildNext == Build

BuildSpec == BuildInit /\ [][BuildNext]_vars

(* ---------------------------------------------------------------------- *)
(* codegen.rs: find_combinations. CombSpec calls it once on a range of     *)
(* lengths, a list of distinct chars and a results vector. A string is the *)
(* sequence of its chars (code points).                                    *)
(* ---------------------------------------------------------------------- *)
MaxCombLen == 3
MaxChars == 3

\* 'a', 'b', 'c' of the tests, and a char taking two bytes in UTF-8
CombChars == {97, 98, 99, 233}

\* String::len(): the number of bytes of the UTF-8 encoding of the chars
RECURSIVE StrLen(_)
StrLen(s) ==
    IF s = <<>> THEN 0
    ELSE LET c == Head(s)
             width == IF c < 128 THEN 1 ELSE IF c < 2048 THEN 2
                      ELSE IF c < 65536 THEN 3 ELSE 4
         IN  width + StrLen(Tail(s))

\* find_combinations(start..=end, chars, results): the vector afterwards
RECURSIVE FindCombinations(_, _, _, _)
FindCombinations(start, end, chars, results) ==
    IF start = 1 /\ end = 1
    THEN results \o [i \in 1..Len(chars) |-> <<chars[i]>>]
    ELSE LET seed_results ==
                 FindCombinations(Max({1, start - 1}), Max({1, end - 1}), chars, <<>>)
             kept == IF start = 1
                     THEN SelectSeq(seed_results, LAMBDA s : StrLen(s) < 2)
                     ELSE <<>>
             m == Len(chars)
             extended ==
                 [i \in 1..(Len(seed_results) * m) |->
                     Append(seed_results[((i - 1) \div m) + 1],
                            chars[((i - 1) % m) + 1])]
         IN  results \o kept \o extended

\* lists of distinct chars
CharLists ==
    {s \in UNION {[1..n -> CombChars] : n \in 0..MaxChars} :
        \A i, j \in DOMAIN s : i # j => s[i] # s[j]}

CombInit ==
    /\ LedgerIdle
    /\ line_io = NoLine
    /\ identities = <<>>
    /\ eq_io = NoEq
    /\ hex_io = NoHex
    /\ bridge_io = NoBridge
    /\ twin = NoTwin
    /\ \E start \in 1..MaxCombLen, end \in 1..MaxCombLen, chars \in CharLists,
          before \in {<<>>, <<<<122, 122>>>>} :
          /\ start <= end
          /\ build_io = [stage |-> "comb", start |-> start, end |-> end,
                         chars |-> chars, before |-> before, results |-> before]

CombCall ==
    /\ build_io.stage = "comb"
    /\ build_io' = [build_io EXCEPT
                      !.stage = "comb_done",
                      !.results = FindCombinations(build_io.start, build_io.end,
                                                   build_io.chars, build_io.before)]
    /\ UNCHANGED <<ledger, line_io, identities, eq_io, hex_io, bridge_io, twin>>

CombSpec == CombInit /\ [][CombCall]_vars

(* ---------------------------------------------------------------------- *)
(* random.rs: randomized, and codegen.rs: write_prefixes, which calls it.  *)
(* PrefixSpec runs the loop of randomized one iteration at a step, entered *)
(* from write_prefixes or directly as the test does, over one prefix file  *)
(* per behaviour. The table is built for the first NumHexDigits hex digits.*)
(* ChaCha12Rng and the Uniform sampler are stood for by a generator of     *)
(* full period and a multiply-shift onto 0..n-1: each call of next() moves *)
(* the generator once, the index is a function of its state, an index may  *)
(* come more than once and every index keeps coming.                       *)
(* ---------------------------------------------------------------------- *)
NumHexDigits == 2
MaxRandCalls == 2

\* "0123456789abcdef".chars()
HEX_DIGITS == <<48, 49, 50, 51, 52, 53, 54, 55, 56, 57, 97, 98, 99, 100, 101, 102>>
HexDigitsUsed == SubSeq(HEX_DIGITS, 1, NumHexDigits)

\* the number of states of the generator
RngModulus == 64
\* rng_seed of write_prefixes, 656437432927126634, as the generator takes it
WRITE_PREFIXES_SEED == 42
\* rng_seed of the test, 1442565572658396971, as the generator takes it
TEST_SEED == 43

\* ChaCha12Rng::seed_from_u64
SeedFromU64(seed) == seed % RngModulus
\* the generator's step
RngNext(rng) == (5 * rng + 3) % RngModulus
\* Uniform::new(0, n) sampled from the generator's state
Sample(rng, n) == (rng * n) \div RngModulus

\* hex_keys of write_prefixes
HexKeys == FindCombinations(STORAGE_KEY_LENGTH, STORAGE_KEY_LENGTH, HexDigitsUsed, <<>>)

\* the lines of a prefix file: "w01", "w02", ...
Word(i) == <<119, 48 + (i \div 10), 48 + (i % 10)>>
\* files of fewer words than keys, as many and more, without and with a
\* word that comes twice
WordFiles ==
    LET sizes == {0, Len(HexKeys) - 1, Len(HexKeys), Len(HexKeys) + 1}
    IN  {[i \in 1..n |-> Word(i)] : n \in sizes}
        \cup {[i \in 1..n |-> IF i = at THEN Word(1) ELSE Word(i)] :
                n \in sizes \ {0}, at \in {2, Len(HexKeys), Len(HexKeys) + 1}}
\* the test takes the first lines of a word file
TestTakes == {0, 2, 3}

\* Iterator::take(n).collect()
Take(lines, n) == SubSeq(lines, 1, Min({n, Len(lines)}))

NoPrefix ==
    [stage |-> "idle", file |-> <<>>, caller |-> "none", slices |-> <<>>,
     seed |-> 0, rng |-> 0, randomized |-> <<>>, drawn |-> {},
     runs |-> <<>>, tables |-> <<>>]

\* what a call of randomized has come to
RunOf(b, outcome) ==
    [caller |-> b.caller, slices |-> b.slices, seed |-> b.seed,
     outcome |-> outcome, result |-> b.randomized]

\* variant: the generator is not seeded again by a later call
Enter_KeepsRng(b, caller, slices, seed) ==
    LET entered == [b EXCEPT !.caller = caller, !.slices = slices, !.seed = seed,
                             !.rng = IF b.runs = <<>> THEN SeedFromU64(seed) ELSE @,
                             !.randomized = <<>>, !.drawn = {}]
    IN  IF Len(slices) = 0
        THEN [entered EXCEPT !.runs = Append(@, RunOf(entered, "panic"))]
        ELSE [entered EXCEPT !.stage = "loop"]

\* randomized up to its loop: the generator is seeded, and Uniform::new(0, 0)
\* is an error, which unwrap turns into a panic
Enter(b, caller, slices, seed) ==
    LET entered == [b EXCEPT !.caller = caller, !.slices = slices, !.seed = seed,
                             !.rng = SeedFromU64(seed),
                             !.randomized = <<>>, !.drawn = {}]
    IN  IF Len(slices) = 0
        THEN [entered EXCEPT !.runs = Append(@, RunOf(entered, "panic"))]
        ELSE [entered EXCEPT !.stage = "loop"]

\* variant: the word drawn is pushed whether or not it is there already
LoopStep_PushesAlways(b) ==
    LET rng == RngNext(b.rng)
        idx == Sample(rng, Len(b.slices))
        word == b.slices[idx + 1]
    IN  [b EXCEPT !.rng = rng,
                  !.drawn = @ \cup {idx},
                  !.randomized = Append(@, word)]

\* one iteration of the loop of randomized; `drawn` keeps the indexes seen
LoopStep(b) ==
    LET rng == RngNext(b.rng)
        idx == Sample(rng, Len(b.slices))
        word == b.slices[idx + 1]
    IN  [b EXCEPT !.rng = rng,
                  !.drawn = @ \cup {idx},
                  !.randomized = IF InSeq(word, @) THEN @ ELSE Append(@, word)]

PrefixInit ==
    /\ LedgerIdle
    /\ line_io = NoLine
    /\ identities = <<>>
    /\ eq_io = NoEq
    /\ hex_io = NoHex
    /\ bridge_io = NoBridge
    /\ twin = NoTwin
    /\ \E file \in WordFiles : build_io = [NoPrefix EXCEPT !.file = file]

PrefixIdle == UNCHANGED <<ledger, line_io, identities, eq_io, hex_io, bridge_io, twin>>

\* write_prefixes up to the loop of randomized
WritePrefixesStart ==
    /\ build_io.stage = "idle"
    /\ Len(build_io.runs) < MaxRandCalls
    /\ build_io' = Enter(build_io, "write_prefixes",
                         Take(build_io.file, Len(HexKeys)), WRITE_PREFIXES_SEED)
    /\ PrefixIdle

\* the test's call of randomized up to its loop
RandCall(take, seed) ==
    /\ build_io.stage = "idle"
    /\ Len(build_io.runs) < MaxRandCalls
    /\ build_io' = Enter(build_io, "test", Take(build_io.file, take), seed)
    /\ PrefixIdle

RandLoop ==
    /\ build_io.stage = "loop"
    /\ Len(build_io.randomized) < Len(build_io.slices)
    /\ build_io' = LoopStep(build_io)
    /\ PrefixIdle

\* the loop is left and the vector returned to the test
RandReturn ==
    /\ build_io.stage = "loop"
    /\ build_io.caller = "test"
    /\ Len(build_io.randomized) >= Len(build_io.slices)
    /\ build_io' = [build_io EXCEPT !.stage = "idle",
                                    !.runs = Append(@, RunOf(build_io, "ok"))]
    /\ PrefixIdle

\* the loop is left and write_prefixes goes on: assert_eq, then one entry
\* for each pair of the zip
WritePrefixesFinish ==
    /\ build_io.stage = "loop"
    /\ build_io.caller = "write_prefixes"
    /\ Len(build_io.randomized) >= Len(build_io.slices)
    /\ LET prefix_words == build_io.randomized
           table ==
               IF Len(HexKeys) # Len(prefix_words)
               THEN [outcome |-> "panic", entries |-> <<>>]
               ELSE [outcome |-> "ok",
                     entries |-> [i \in 1..Len(HexKeys) |->
                                    [key |-> HexKeys[i], value |-> prefix_words[i]]]]
       IN  build_io' = [build_io EXCEPT !.stage = "idle",
                                        !.runs = Append(@, RunOf(build_io, "ok")),
                                        !.tables = Append(@, table)]
    /\ PrefixIdle

PrefixNext ==
    \/ WritePrefixesStart
    \/ \E take \in TestTakes, seed \in {WRITE_PREFIXES_SEED, TEST_SEED} : RandCall(take, seed)
    \/ RandLoop
    \/ RandReturn
    \/ WritePrefixesFinish

PrefixSpec == PrefixInit /\ [][PrefixNext]_vars

(* ---------------------------------------------------------------------- *)
(* hex_string.rs: From<HexString<4>> for u16. U16Spec converts one         *)
(* HexString<4>, which holds four lowercase hex digits, drawn from all of  *)
(* them.                                                                   *)
(* ---------------------------------------------------------------------- *)
\* the number of values of a u16
U16_RANGE == 65536

HexStrings4 == [1..4 -> {HEX_DIGITS[i] : i \in DOMAIN HEX_DIGITS}]

\* hex_digits.iter().position(|&d| d == ch).unwrap()
Position(ch) == (CHOOSE i \in DOMAIN HEX_DIGITS : HEX_DIGITS[i] = ch) - 1

\* the loop over the chars with lo and scale as u16: a product or a sum
\* out of the u16 range wraps, or panics in a build with overflow checks
RECURSIVE U16Loop(_, _)
U16Loop(chars, acc) ==
    IF chars = <<>> THEN acc
    ELSE LET ch_pos == Position(Head(chars))
             product == ch_pos * acc.scale
             sum == acc.lo + (product % U16_RANGE)
         IN  U16Loop(Tail(chars),
                     [lo |-> sum % U16_RANGE,
                      scale |-> acc.scale \div 16,
                      overflow |-> \/ acc.overflow
                                   \/ product >= U16_RANGE
                                   \/ sum >= U16_RANGE])

\* variant: the scale starts at 256
ToU16_SmallScale(value) ==
    U16Loop(value, [lo |-> 0, scale |-> 256, overflow |-> FALSE])

\* u16::from(value)
ToU16(value) == U16Loop(value, [lo |-> 0, scale |-> 4096, overflow |-> FALSE])

U16Init ==
    /\ LedgerIdle
    /\ line_io = NoLine
    /\ identities = <<>>
    /\ eq_io = NoEq
    /\ bridge_io = NoBridge
    /\ twin = NoTwin
    /\ build_io = NoBuild
    /\ \E value \in HexStrings4 :
          hex_io = [stage |-> "u16_in", value |-> value, lo |-> 0, overflow |-> FALSE]

U16From ==
    /\ hex_io.stage = "u16_in"
    /\ LET r == ToU16(hex_io.value)
       IN  hex_io' = [hex_io EXCEPT !.stage = "u16_out", !.lo = r.lo,
                                    !.overflow = r.overflow]
    /\ UNCHANGED <<ledger, line_io, identities, eq_io, bridge_io, twin, build_io>>

U16Spec == U16Init /\ [][U16From]_vars

(* ---------------------------------------------------------------------- *)
(* examples/remote_store_ureq.rs: main. ExampleSpec allocates identities   *)
(* through the example bridge and the test server, which starts with       *)
(* nothing stored, and reads a blob back with the bridge's get.            *)
(* ---------------------------------------------------------------------- *)
MaxExampleCalls == 3

\* the lines of a fetched blob can be searched and a found line parsed:
\* &s[..digest.len()] panics on a line shorter than the digest, and
\* parse().unwrap() on anything but decimal digits
Searchable(lines, digest) == \A i \in DOMAIN lines : Len(lines[i]) >= Len(digest)

Parsable(found_line, digest) ==
    LET text == Trim(SubSeq(found_line, Len(digest) + 2, Len(found_line)))
    IN  /\ Len(found_line) >= Len(digest) + 1
        /\ text # <<>>
        /\ \A i \in DOMAIN text : ZERO <= text[i] /\ text[i] <= ZERO + 9

\* digest_offset, blocking, over the example bridge, up to its put
ExampleLookup(resources, key, digest) ==
    LET fetched == GetVia("example", resources, key)
        lines == LinesOf(fetched)
        found == BinarySearch(SearchLines(lines, digest), digest)
        r == Lookup(fetched, digest)
        panic == [outcome |-> "panic", hit |-> FALSE, offset |-> 0, resource |-> <<>>]
    IN  IF ~Searchable(lines, digest) THEN panic
        ELSE IF found.found /\ ~Parsable(lines[found.at + 1], digest) THEN panic
        ELSE [outcome |-> "ok", hit |-> r.hit, offset |-> r.offset,
              resource |-> r.resource]

ExampleInit ==
    /\ LedgerIdle
    /\ line_io = NoLine
    /\ identities = <<>>
    /\ eq_io = NoEq
    /\ hex_io = NoHex
    /\ twin = NoTwin
    /\ build_io = NoBuild
    /\ bridge_io = [stage |-> "example",
                    resources |-> [k \in Keys |-> NoBytes],
                    calls |-> <<>>, last |-> "none",
                    got_key |-> "", got |-> NoBytes]

\* POPULATION.identity(identifier, &mut store): the call of digest_offset
\* with the identifier's storage key and digest; `arrived` is what the
\* server's first read brings of the body of the put
ExampleIdentity(key, digest) ==
    /\ bridge_io.stage = "example"
    /\ Len(bridge_io.calls) < MaxExampleCalls
    /\ LET r == ExampleLookup(bridge_io.resources, key, digest)
           puts == r.outcome = "ok" /\ ~r.hit
       IN  \E arrived \in (IF puts THEN Arrivals(r.resource) ELSE {0}) :
              bridge_io' = [bridge_io EXCEPT
                  !.stage = IF r.outcome = "panic" THEN "panicked" ELSE @,
                  !.resources = IF puts
                                THEN PutVia("example", @, key, r.resource, arrived)
                                ELSE @,
                  !.calls = Append(@, [key |-> key, digest |-> digest,
                                       outcome |-> r.outcome, offset |-> r.offset]),
                  !.last = "identity", !.got_key = "", !.got = NoBytes]
    /\ UNCHANGED <<ledger, line_io, identities, eq_io, hex_io, twin, build_io>>

\* store.bridge.get(key)
ExampleGet(key) ==
    /\ bridge_io.stage = "example"
    /\ bridge_io.last # "get"
    /\ bridge_io' = [bridge_io EXCEPT
          !.last = "get", !.got_key = key,
          !.got = GetVia("example", bridge_io.resources, key)]
    /\ UNCHANGED <<ledger, line_io, identities, eq_io, hex_io, twin, build_io>>

ExampleNext ==
    \/ \E k \in Keys, d \in Digests : ExampleIdentity(k, d)
    \/ \E k \in Keys : ExampleGet(k)

ExampleSpec == ExampleInit /\ [][ExampleNext]_vars

(* ---------------------------------------------------------------------- *)
(* Reading a persisted blob                                                *)
(* ---------------------------------------------------------------------- *)
BlobLines(k) == LinesOf(store[k])
LineDigest(l) == SubSeq(l, 1, STORAGE_DIGEST_LENGTH)
LineOffset(l) == ParseUsize(Trim(SubSeq(l, STORAGE_DIGEST_LENGTH + 2, Len(l))))
Present(blob, digest) ==
    \E i \in 1..Len(LinesOf(blob)) : LineDigest(LinesOf(blob)[i]) = digest
StoredOffset(blob, digest) ==
    LET ls == LinesOf(blob)
    IN  LineOffset(ls[CHOOSE i \in 1..Len(ls) : LineDigest(ls[i]) = digest])
SameTriple(r1, r2) ==
    r1.domain = r2.domain /\ r1.key = r2.key /\ r1.digest = r2.digest
ToldUnder(d, k) == {r \in returned : r.domain = d /\ r.key = k}
FirstKey == "0a1"

(* ---------------------------------------------------------------------- *)
(* C1                                                                      *)
(* ---------------------------------------------------------------------- *)
\* C1 as stated: every successful call for one (domain, key, digest) returns
\* the same offset, in every interleaving with other clients' allocations
C1_IdempotentInEveryInterleaving ==
    \A r1 \in returned, r2 \in returned :
        SameTriple(r1, r2) => r1.offset = r2.offset

\* C1, amended: every successful call for one (domain, key, digest) returns
\* the same offset as the first, as long as no put to the key has landed
\* while another call on the same key was between its get and its put
C1_IdempotentUnlessOverwritten ==
    \A r1 \in returned, r2 \in returned :
        (SameTriple(r1, r2) /\ r1.key \notin raced) => r1.offset = r2.offset

\* a digest allocated first is looked up again, after the other client has
\* allocated another digest under the same key
C1_Witness ==
    \E c \in Clients, d \in Clients :
        /\ c # d
        /\ FirstKey \notin raced
        /\ args[c].key = FirstKey /\ args[d].key = FirstKey
        /\ result[c].kind = "ok" /\ Len(io[c]) = 1
        /\ result[d].kind = "ok" /\ Len(io[d]) = 2
        /\ Len(order[FirstKey]) >= 2
        /\ order[FirstKey][1] = args[c].digest
        /\ order[FirstKey][2] = args[d].digest

(* ---------------------------------------------------------------------- *)
(* C2                                                                      *)
(* ---------------------------------------------------------------------- *)
\* C2: for a fixed (domain, key), calls made one after another return
\* exactly the offsets 0..m-1, m the number of digests allocated under it
C2_Density ==
    \A d \in Domains, k \in Keys \ raced :
        {r.offset : r \in ToldUnder(d, k)}
            = 0..(Cardinality({r.digest : r \in ToldUnder(d, k)}) - 1)

(* ---------------------------------------------------------------------- *)
(* C3                                                                      *)
(* ---------------------------------------------------------------------- *)
Rank(k, i) ==
    1 + Cardinality({j \in 1..Len(order[k]) : StrCmp(order[k][j], order[k][i]) = -1})

\* C3: allocating one after another under a key, the N-th digest to be
\* allocated is told N-1, and its line stands at its sort position
C3_AllocationOrder ==
    \A k \in Keys \ raced :
        LET ls == BlobLines(k)
        IN  /\ \A r \in returned :
                  r.key = k =>
                     \E i \in 1..Len(order[k]) :
                        order[k][i] = r.digest /\ r.offset = i - 1
            /\ Len(ls) = Len(order[k])
            /\ \A i \in 1..Len(order[k]) :
                  LET l == ls[Rank(k, i)]
                  IN  LineDigest(l) = order[k][i] /\ LineOffset(l) = i - 1

\* D1, D2, D3 allocated in this order with D2 < D1 < D3: told 0, 1, 2 and
\* stored as D2, D1, D3
C3_Witness ==
    /\ FirstKey \notin raced
    /\ order[FirstKey] = <<DigestN(1), DigestN(2), DigestN(3)>>
    /\ \A i \in 1..3 :
          \E r \in returned :
              r.key = FirstKey /\ r.digest = DigestN(i) /\ r.offset = i - 1
    /\ [i \in 1..Len(BlobLines(FirstKey)) |-> LineDigest(BlobLines(FirstKey)[i])]
          = <<DigestN(2), DigestN(1), DigestN(3)>>

(* ---------------------------------------------------------------------- *)
(* C4                                                                      *)
(* ---------------------------------------------------------------------- *)
\* C4: a call whose get finds the digest in the blob returns the stored
\* offset at once, with no put issued and every blob unchanged
C4_HitWritesNothing ==
    [][\A c \in Clients :
          ( /\ pc[c] = "get" /\ pc'[c] # "get"
            /\ result'[c].kind # "err"
            /\ Present(store[args[c].key], args[c].digest) )
          =>
          ( /\ pc'[c] = "idle"
            /\ result'[c] = OkResult(StoredOffset(store[args[c].key], args[c].digest))
            /\ store' = store
            /\ io'[c] = <<[op |-> "get", key |-> args[c].key]>> )]_vars

\* a call has returned on a hit in a ledger of at least two lines
C4_Witness ==
    \E c \in Clients :
        /\ pc[c] = "idle" /\ result[c].kind = "ok"
        /\ Len(io[c]) = 1
        /\ Len(LinesOf(stored_bytes[c])) >= 2
        /\ Present(stored_bytes[c], args[c].digest)
        /\ result[c].offset = 1

(* ---------------------------------------------------------------------- *)
(* C5                                                                      *)
(* ---------------------------------------------------------------------- *)
\* C5: the digests of every persisted blob are strictly ascending
C5_SortedLedger ==
    \A k \in Keys :
        LET ls == BlobLines(k)
        IN  \A i \in 1..(Len(ls) - 1) :
                StrCmp(LineDigest(ls[i]), LineDigest(ls[i + 1])) = -1

\* a blob holds a digest that was inserted before an older line
C5_Witness ==
    \E k \in Keys :
        /\ Len(BlobLines(k)) >= 2
        /\ LineOffset(BlobLines(k)[1]) > LineOffset(BlobLines(k)[2])

(* ---------------------------------------------------------------------- *)
(* C6                                                                      *)
(* ---------------------------------------------------------------------- *)
\* C6: the ledgers of two domains are apart: the offsets told under one
\* (domain, key) start at 0 whatever was allocated under another domain
C6_DomainIsolation ==
    \A d \in Domains, k \in Keys :
        ToldUnder(d, k) # {} => 0 \in {r.offset : r \in ToldUnder(d, k)}

(* ---------------------------------------------------------------------- *)
(* C7                                                                      *)
(* ---------------------------------------------------------------------- *)
\* C7: every line written is exactly 61 + 1 + 5 = 67 bytes
C7_FixedWidthLines ==
    line_io.stage \in {"written", "read"} =>
        Len(line_io.line) = STORAGE_DIGEST_LENGTH + 1 + OFFSET_WIDTH

(* ---------------------------------------------------------------------- *)
(* C8                                                                      *)
(* ---------------------------------------------------------------------- *)
\* "<digest>     0\n"
FirstLineBlob(digest) == digest \o <<32, 32, 32, 32, 32, 48, 10>>

\* C8: a get that finds no blob is not a failure: the call goes on to put
\* the one-line blob "<digest>     0\n" and, the put done, returns 0
C8_MissingBlobIsEmptyLedger ==
    [][\A c \in Clients :
          /\ ( /\ pc[c] = "get" /\ pc'[c] # "get"
               /\ result'[c].kind # "err"
               /\ ~store[args[c].key].some )
             =>
             ( /\ pc'[c] = "put"
               /\ next_offset'[c] = 0
               /\ resource'[c] = FirstLineBlob(args[c].digest) )
          /\ ( /\ pc[c] = "put" /\ ~stored_bytes[c].some
               /\ result'[c].kind = "ok" )
             =>
             ( /\ result'[c].offset = 0
               /\ store'[args[c].key] = SomeBytes(FirstLineBlob(args[c].digest)) )]_vars

\* a call that fetched no blob has returned after its put
C8_Witness ==
    \E c \in Clients :
        /\ result[c].kind = "ok" /\ Len(io[c]) = 2
        /\ ~stored_bytes[c].some
        /\ store[args[c].key] = SomeBytes(FirstLineBlob(args[c].digest))

BothWroteFromSameLedger(c, d) ==
    /\ c # d
    /\ result[c].kind = "ok" /\ Len(io[c]) = 2
    /\ result[d].kind = "ok" /\ Len(io[d]) = 2
    /\ args[c].key = args[d].key
    /\ args[c].digest # args[d].digest
    /\ stored_bytes[c] = stored_bytes[d]

\* C10: when two clients' calls for different new digests fetch the same
\* ledger, both are told the same offset, and the blob left is one client's
\* put, without the other client's digest
C10_LostUpdate ==
    \A c \in Clients, d \in Clients :
        BothWroteFromSameLedger(c, d) =>
            /\ result[c].offset = result[d].offset
            /\ store[args[c].key].bytes \in {resource[c], resource[d]}
            /\ ~(Present(store[args[c].key], args[c].digest)
                 /\ Present(store[args[c].key], args[d].digest))

\* the race has happened on a ledger that already held a line
C10_Witness ==
    \E c \in Clients, d \in Clients :
        /\ BothWroteFromSameLedger(c, d)
        /\ stored_bytes[c].some
        /\ result[c].offset = 1 /\ result[d].offset = 1
        /\ ~Present(store[args[c].key], args[c].digest)

(* ---------------------------------------------------------------------- *)
(* C11                                                                     *)
(* ---------------------------------------------------------------------- *)
SameCall(e1, e2) == e1.domain = e2.domain /\ e1.identifier = e2.identifier

\* C11: identity called again for an identifier of a population, by one
\* caller with no failure, returns the same friendly_name and the same
\* storage record, and the later call puts nothing
C11_IdentityIdempotent ==
    \A i \in 1..Len(identities) :
        \A j \in (i + 1)..Len(identities) :
            SameCall(identities[i], identities[j]) =>
                /\ identities[j].friendly_name = identities[i].friendly_name
                /\ identities[j].storage = identities[i].storage
                /\ identities[j].offset = identities[i].offset
                /\ \A n \in 1..Len(identities[j].io) :
                      identities[j].io[n].op # "put"

\* an identity is asked for again after another identifier was given a
\* line that sorts before its line in the same ledger
C11_Witness ==
    /\ Len(identities) >= 3
    /\ SameCall(identities[1], identities[3])
    /\ ~SameCall(identities[1], identities[2])
    /\ identities[2].storage.key = identities[1].storage.key
    /\ StrCmp(identities[2].storage.digest, identities[1].storage.digest) = -1
    /\ identities[2].offset = 1
    /\ identities[3].friendly_name = "unraking-teal-muskrat"

(* ---------------------------------------------------------------------- *)
(* C12                                                                     *)
(* ---------------------------------------------------------------------- *)
\* C12: two Identity values are equal exactly when their domain and their
\* friendly_name are equal, whatever their storage records
C12_EqualityByDomainAndName ==
    eq_io.stage = "on" =>
        (eq_io.equal <=> ( /\ eq_io.a.domain = eq_io.b.domain
                           /\ eq_io.a.friendly_name = eq_io.b.friendly_name ))

\* two values that differ in the storage record alone have compared equal
C12_Witness ==
    /\ eq_io.stage = "on"
    /\ eq_io.equal
    /\ eq_io.a.storage # eq_io.b.storage
    /\ eq_io.a.friendly_name # ""

(* ---------------------------------------------------------------------- *)
(* C13                                                                     *)
(* ---------------------------------------------------------------------- *)
\* C13: HexString::<N>::from(bytes) produces no value when the input is
\* not N bytes long or holds a byte that is not an ASCII hex digit; a value
\* it produces is the input with 'A'..'F' in lower case, N characters of
\* [0-9a-f]; the default value is N characters '0'
C13_FromChecksEveryByte ==
    /\ hex_io.stage = "from" =>
          /\ ( \/ Len(hex_io.bytes) # hex_io.n
               \/ \E i \in 1..Len(hex_io.bytes) : ~IsAsciiHexDigit(hex_io.bytes[i]) )
             => hex_io.outcome = "panic"
          /\ hex_io.outcome = "value" =>
                /\ Len(hex_io.value) = hex_io.n
                /\ \A i \in 1..Len(hex_io.value) :
                      \/ (48 <= hex_io.value[i] /\ hex_io.value[i] <= 57)
                      \/ (97 <= hex_io.value[i] /\ hex_io.value[i] <= 102)
                /\ hex_io.value = [i \in 1..Len(hex_io.bytes) |->
                                      IF 65 <= hex_io.bytes[i] /\ hex_io.bytes[i] <= 70
                                      THEN hex_io.bytes[i] + 32 ELSE hex_io.bytes[i]]
    /\ hex_io.stage = "default" =>
          hex_io.value = [i \in 1..hex_io.n |-> 48]

(* ---------------------------------------------------------------------- *)
(* C14                                                                     *)
(* ---------------------------------------------------------------------- *)
\* C14: with either connector, a get that comes right after a put on the
\* same key returns the bytes that were put, the newlines too
C14_ReadAfterWrite ==
    ( /\ bridge_io.stage = "on"
      /\ bridge_io.last = "get"
      /\ bridge_io.written # NoPut
      /\ bridge_io.got_key = bridge_io.written.key )
    => bridge_io.got = SomeBytes(bridge_io.written.body)

(* ---------------------------------------------------------------------- *)
(* C15                                                                     *)
(* ---------------------------------------------------------------------- *)

C16_LineRoundTrip ==
    line_io.stage = "read" =>
        /\ line_io.read_digest = line_io.digest
        /\ line_io.read_offset = line_io.len

\* a line whose offset is wider than the field has been read back
C16_Witness ==
    /\ line_io.stage = "read"
    /\ line_io.len = 100000
    /\ line_io.read_offset = 100000
    /\ Len(line_io.line) = 68

(* ---------------------------------------------------------------------- *)
(* C17                                                                     *)
(* ---------------------------------------------------------------------- *)
\* c * a < r, for numbers of words c and a
ProductBelow(c, a, r) == r > 0 /\ (c = 0 \/ a <= (r - 1) \div c)

C18_OffsetFitsWithinCapacity ==
    \A size \in PopulationSizes :
        ( /\ line_io.stage \in {"written", "read"}
          /\ line_io.len <= RequiredColorAnimals(size) - 1 )
        => /\ Len(Decimal(line_io.len)) <= OFFSET_WIDTH
           /\ Len(line_io.line) = STORAGE_DIGEST_LENGTH + 1 + OFFSET_WIDTH

\* the line of the largest offset of the largest population has been written
C18_Witness ==
    /\ line_io.stage = "written"
    /\ line_io.len = 49579
    /\ line_io.len = RequiredColorAnimals("Brazil") - 1
    /\ Len(line_io.line) = 67

(* ---------------------------------------------------------------------- *)
(* C19                                                                     *)
(* ---------------------------------------------------------------------- *)
GetOf(c) == [op |-> "get", key |-> args[c].key]
PutOf(c) == [op |-> "put", key |-> args[c].key]

\* C19: a call issues one get and then at most one put, both under the
\* call's key: the get comes first and changes no blob; after it the call
\* goes on to its put exactly when the get succeeded and missed, and returns
\* otherwise; the put is the call's second and last bridge call and changes
\* no blob of another key; no blob changes without a put
C19_OneGetThenAtMostOnePut ==
    [][/\ \A c \in Clients :
             /\ (pc[c] = "idle" /\ pc'[c] # "idle")
                => (pc'[c] = "get" /\ io'[c] = <<>> /\ store' = store)
             /\ (pc[c] = "get" /\ pc'[c] # "get")
                => /\ io'[c] = <<GetOf(c)>>
                   /\ store' = store
                   /\ pc'[c] = "put" <=>
                         ( /\ result'[c].kind # "err"
                           /\ ~Present(store[args[c].key], args[c].digest) )
                   /\ pc'[c] = "idle" <=>
                         ( \/ result'[c].kind = "err"
                           \/ Present(store[args[c].key], args[c].digest) )
             /\ (pc[c] = "put" /\ pc'[c] # "put")
                => /\ io'[c] = <<GetOf(c), PutOf(c)>>
                   /\ pc'[c] = "idle"
                   /\ \A k \in Keys \ {args[c].key} : store'[k] = store[k]
             /\ pc'[c] = pc[c] => io'[c] = io[c]
       /\ store' # store => \E c \in Clients : pc[c] = "put" /\ pc'[c] = "idle"]_vars

\* one call has returned on a hit after its get alone, another after a get
\* and a put, while the ledger of the other key holds a line
C19_Witness ==
    \E c \in Clients, d \in Clients :
        /\ c # d
        /\ pc[c] = "idle" /\ result[c].kind = "ok" /\ io[c] = <<GetOf(c)>>
        /\ pc[d] = "idle" /\ result[d].kind = "ok" /\ io[d] = <<GetOf(d), PutOf(d)>>
        /\ args[c].key # args[d].key
        /\ store[args[c].key].some /\ store[args[d].key].some

(* ---------------------------------------------------------------------- *)
(* C20                                                                     *)
(* ---------------------------------------------------------------------- *)
\* C20: in every reachable state, races of the clients included, the
\* offsets of a persisted blob of n lines are 0 .. n-1, each on one line
C20_BlobOffsetsPermutation ==
    \A k \in Keys :
        LET ls == BlobLines(k)
            offsets == [i \in 1..Len(ls) |-> LineOffset(ls[i])]
        IN  /\ {offsets[i] : i \in 1..Len(ls)} = 0..(Len(ls) - 1)
            /\ \A i \in 1..Len(ls) : \A j \in 1..Len(ls) :
                  offsets[i] = offsets[j] => i = j

\* a ledger on which a put has replaced a racing put holds two lines
C20_Witness ==
    \E k \in raced :
        /\ Len(BlobLines(k)) = 2
        /\ \E r1 \in returned, r2 \in returned :
              r1.key = k /\ r2.key = k /\ r1.digest # r2.digest
              /\ r1.offset = 0 /\ r2.offset = 0

(* ---------------------------------------------------------------------- *)
(* C21                                                                     *)
(* ---------------------------------------------------------------------- *)
\* `longer` is `shorter` with one line put in at position i
AddsLineAt(shorter, longer, i) ==
    /\ Len(longer) = Len(shorter) + 1
    /\ \A j \in 1..(i - 1) : longer[j] = shorter[j]
    /\ \A j \in (i + 1)..Len(longer) : longer[j] = shorter[j - 1]

\* C21: the blob a call puts is the blob the same call fetched with exactly
\* one line added: every line fetched is in it, with its offset, in the
\* same order, and the lines are joined by newlines with one at the end
C21_InsertionKeepsWhatWasRead ==
    [][\A c \in Clients :
          (pc[c] = "put" /\ pc'[c] = "idle" /\ result'[c].kind = "ok")
          => LET old == LinesOf(stored_bytes[c])
                 new == LinesOf(store'[args[c].key])
             IN  /\ store'[args[c].key].some
                 /\ \E i \in 1..Len(new) : AddsLineAt(old, new, i)
                 /\ store'[args[c].key].bytes = Resource(new)]_vars

\* a call has put a line in front of the two lines it fetched
C21_Witness ==
    \E c \in Clients :
        /\ pc[c] = "idle" /\ result[c].kind = "ok" /\ Len(io[c]) = 2
        /\ Len(LinesOf(stored_bytes[c])) = 2
        /\ store[args[c].key] = SomeBytes(resource[c])
        /\ AddsLineAt(LinesOf(stored_bytes[c]), LinesOf(SomeBytes(resource[c])), 1)
        /\ LineDigest(LinesOf(SomeBytes(resource[c]))[1]) = args[c].digest

(* ---------------------------------------------------------------------- *)
(* C22                                                                     *)
(* ---------------------------------------------------------------------- *)
RECURSIVE Power(_, _)
Power(m, n) == IF n = 0 THEN 1 ELSE m * Power(m, n - 1)

\* the strings of n chars over `chars`, in the order given by chars
StringsOfLength(chars, n) ==
    LET m == Len(chars)
    IN  [i \in 1..Power(m, n) |->
            [j \in 1..n |-> chars[(((i - 1) \div Power(m, n - j)) % m) + 1]]]

RECURSIVE StringsOfLengths(_, _, _)
StringsOfLengths(chars, a, b) ==
    IF a > b THEN <<>>
    ELSE StringsOfLength(chars, a) \o StringsOfLengths(chars, a + 1, b)

\* the elements of a sequence
Elements(s) == {s[i] : i \in DOMAIN s}

\* the storage keys over the hex digits in use
AllKeys == Elements(StringsOfLength(HexDigitsUsed, STORAGE_KEY_LENGTH))

\* C22: a table that write_prefixes has completed holds exactly one entry
\* for each possible key of STORAGE_KEY_LENGTH hex digits, every entry's
\* word is among the first words of the prefix file, as many as there are
\* keys, and different keys have different words
C22_ExhaustivePrefixTable ==
    \A t \in Elements(build_io.tables) :
        t.outcome = "ok" =>
            /\ Cardinality(AllKeys) = Power(NumHexDigits, STORAGE_KEY_LENGTH)
            /\ \A i \in DOMAIN t.entries : t.entries[i].key \in AllKeys
            /\ \A k \in AllKeys :
                  Cardinality({i \in DOMAIN t.entries : t.entries[i].key = k}) = 1
            /\ \A i \in DOMAIN t.entries :
                  t.entries[i].value
                      \in Elements(SubSeq(build_io.file, 1, Cardinality(AllKeys)))
            /\ \A i, j \in DOMAIN t.entries :
                  i # j => t.entries[i].value # t.entries[j].value

\* a table has been completed from a file holding more words than there are
\* keys, and its words are not in the order of the file
C22_Witness ==
    /\ build_io.stage = "idle"
    /\ Len(build_io.tables) = 1
    /\ build_io.tables[1].outcome = "ok"
    /\ Len(build_io.file) > Len(build_io.tables[1].entries)
    /\ \E i \in DOMAIN build_io.tables[1].entries :
          build_io.tables[1].entries[i].value # build_io.file[i]

C24_UsesEveryWord ==
    /\ \A r \in Elements(build_io.runs) :
          /\ r.outcome = "ok"
          /\ Len(r.result) = Len(r.slices)
          /\ \A i \in DOMAIN r.slices :
                Cardinality({j \in DOMAIN r.result : r.result[j] = r.slices[i]}) = 1
    /\ (build_io.stage = "loop"
        /\ build_io.drawn = 0..(Len(build_io.slices) - 1))
       => Len(build_io.randomized) = Len(build_io.slices)

(* ---------------------------------------------------------------------- *)
(* C25                                                                     *)
(* ---------------------------------------------------------------------- *)
\* C25: two calls of randomized with the same slice and the same seed come
\* to the same vector, and every build of the prefix table from one file
\* assigns the same word to each key
C25_SameSeedSameOrder ==
    /\ \A r, s \in Elements(build_io.runs) :
          (r.slices = s.slices /\ r.seed = s.seed)
          => (r.outcome = s.outcome /\ r.result = s.result)
    /\ \A t, u \in Elements(build_io.tables) : t = u

\* the table has been built twice, and the test has not been run: both
\* calls of randomized had the words and the seed of write_prefixes
C25_Witness ==
    /\ Len(build_io.tables) = 2
    /\ build_io.tables[1].outcome = "ok"
    /\ build_io.tables[2].outcome = "ok"
    /\ \E i \in DOMAIN build_io.tables[2].entries :
          build_io.tables[2].entries[i].value # build_io.file[i]

(* ---------------------------------------------------------------------- *)
(* C26                                                                     *)
(* ---------------------------------------------------------------------- *)
\* the value of a lowercase hex digit, from its byte
DigitValue(b) == IF b <= 57 THEN b - 48 ELSE b - 87

\* C26: u16::from gives the base-16 value of the four characters, for
\* every HexString<4>, and no product or sum on the way leaves the u16 range
C26_BaseSixteenValue ==
    hex_io.stage = "u16_out" =>
        /\ hex_io.lo = DigitValue(hex_io.value[1]) * 4096
                       + DigitValue(hex_io.value[2]) * 256
                       + DigitValue(hex_io.value[3]) * 16
                       + DigitValue(hex_io.value[4])
        /\ ~hex_io.overflow
        /\ hex_io.value = <<48, 48, 48, 48>> => hex_io.lo = 0
        /\ hex_io.value = <<55, 102, 102, 102>> => hex_io.lo = 32767
        /\ hex_io.value = <<102, 102, 102, 102>> => hex_io.lo = 65535

\* "ffff" has been converted
C26_Witness ==
    /\ hex_io.stage = "u16_out"
    /\ hex_io.value = <<102, 102, 102, 102>>
    /\ hex_io.lo = 65535

(* ---------------------------------------------------------------------- *)
(* C27                                                                     *)
(* ---------------------------------------------------------------------- *)
\* C27: once the first identity has been allocated under its key, and no
\* other digest under that key, get(key) through the example bridge returns
\* exactly the identity's 61-character digest followed by the two bytes " 0"
C27_ExampleBlobContent ==
    ( /\ bridge_io.stage = "example"
      /\ bridge_io.last = "get"
      /\ \E i \in DOMAIN bridge_io.calls : bridge_io.calls[i].key = bridge_io.got_key )
    => LET under == SelectSeq(bridge_io.calls,
                              LAMBDA c : c.key = bridge_io.got_key)
       IN  (\A i \in DOMAIN under : under[i].digest = under[1].digest)
           => /\ under[1].offset = 0
              /\ bridge_io.got = SomeBytes(under[1].digest \o <<SP, ZERO>>)

====
